---- MODULE Spec2Model ----
(***************************************************************************)
(* Model of the UQ_tutorial utilities:                                     *)
(*   equilibration.py  mser, _standard_error_squared                       *)
(*   convergence.py    rhat, _reshape_chain, _W, _B_over_n, _lambda1       *)
(*   model.py          BaseModel, LinearModel, FractionalModel,            *)
(*                     ExponentialModel, check_data                        *)
(* Floating-point numbers are modelled by exact rationals [n, d] with the  *)
(* IEEE special values kept: d = 0 is +inf (n = 1), -inf (n = -1) or NaN   *)
(* (n = 0).                                                                *)
(***************************************************************************)
EXTENDS Integers, Sequences, FiniteSets, TLC

VARIABLES
    unit,          \* which entry point this run exercises: "mser", "rhat", "model"
    series,        \* mser: the caller's 1-D chain
    dmin,          \* mser: argument dmin
    dstep,         \* mser: argument dstep
    dmax,          \* mser: argument dmax
    full_output,   \* mser: argument full_output
    mser_ret,      \* mser: outcome of the last call
    np_major,      \* rhat: numpy major version of the build (1 or 2)
    lapack_nan,    \* rhat: what the build's LAPACK does on NaN input
    chain,         \* rhat: the caller's 3-D array
    time_axis,     \* rhat: argument time_axis
    return_WB,     \* rhat: argument return_WB
    rhat_ret,      \* rhat: outcome of the last call
    model,         \* model.py: the constructed model object
    call,          \* model.py: the last method call (name, params)
    ret            \* model.py: outcome of the last method call

vars == <<unit, series, dmin, dstep, dmax, full_output, mser_ret,
          np_major, lapack_nan, chain, time_axis, return_WB, rhat_ret,
          model, call, ret>>

mserVars == <<series, dmin, dstep, dmax, full_output, mser_ret>>
rhatVars == <<np_major, lapack_nan, chain, time_axis, return_WB, rhat_ret>>
modelVars == <<model, call, ret>>

\* Python's None, and an ndarray argument or attribute
None == [kind |-> "None"]

Array(v) == [kind |-> "array", v |-> v]

\* the outcome slot of a call that has not been made
NoRet == [kind |-> "none"]

\* ------------------------------------------------------------------ bounds

MaxLen == 4
MaxVal == 2
MaxDmin == 1
MaxLenT == 22
MaxLevel == 2
MaxDim == 3
MaxSamples == 6
MaxNonZero == 3
MaxM == 3
MaxParam == 1

\* ------------------------------------------------- Python / numpy helpers

Abs(i) == IF i < 0 THEN -i ELSE i

Sign(i) == IF i < 0 THEN -1 ELSE IF i > 0 THEN 1 ELSE 0

Min(a, b) == IF a <= b THEN a ELSE b

RECURSIVE Gcd(_, _)
Gcd(a, b) == IF b = 0 THEN a ELSE Gcd(b, a % b)

\* The sequence <<F(1), ..., F(n)>>, built element by element.
RECURSIVE Tabulate(_, _)
Tabulate(F(_), n) == IF n = 0 THEN <<>> ELSE Append(Tabulate(F, n - 1), F(n))

\* A float: n/d in lowest terms with d > 0, or n/0 with n the sign (inf, NaN).
Q(n, d) ==
    IF d = 1 THEN [n |-> n, d |-> 1]
    ELSE IF d = 0 THEN [n |-> Sign(n), d |-> 0]
    ELSE LET g == Gcd(Abs(n), Abs(d))
             s == Sign(d)
         IN  [n |-> (s * n) \div g, d |-> (s * d) \div g]

QInt(i) == [n |-> i, d |-> 1]

QNaN == [n |-> 0, d |-> 0]

IsNaN(a) == a.d = 0 /\ a.n = 0

IsFinite(a) == a.d # 0

\* Products and sums cancel common factors first, to keep the integers small.
QMul(a, b) ==
    IF a.d = 0 \/ b.d = 0 THEN Q(a.n * b.n, 0)
    ELSE IF a.n = 0 \/ b.n = 0 THEN QInt(0)
    ELSE IF a.d = 1 /\ b.d = 1 THEN QInt(a.n * b.n)
    ELSE LET g1 == Gcd(Abs(a.n), b.d)
             g2 == Gcd(Abs(b.n), a.d)
         IN  [n |-> (a.n \div g1) * (b.n \div g2), d |-> (a.d \div g2) * (b.d \div g1)]

QDiv(a, b) == QMul(a, Q(b.d * (IF b.n < 0 THEN -1 ELSE 1), Abs(b.n)))

QAdd(a, b) ==
    IF a.d = 0 /\ b.d = 0
    THEN IF a.n = b.n THEN a ELSE QNaN
    ELSE IF a.d = 0 \/ b.d = 0
    THEN Q(a.n * b.d + b.n * a.d, 0)
    ELSE IF a.n = 0 THEN b
    ELSE IF b.n = 0 THEN a
    ELSE IF a.d = b.d THEN Q(a.n + b.n, a.d)
    ELSE LET g == Gcd(a.d, b.d)
         IN  Q(a.n * (b.d \div g) + b.n * (a.d \div g), (a.d \div g) * b.d)

QNeg(a) == [n |-> -a.n, d |-> a.d]

QSub(a, b) == QAdd(a, QNeg(b))

\* a < b on floats; any comparison with NaN is false.
QLt(a, b) ==
    /\ ~IsNaN(a)
    /\ ~IsNaN(b)
    /\ IF a.d = 0 \/ b.d = 0
       THEN (IF a.d = 0 THEN 2 * a.n ELSE 0) < (IF b.d = 0 THEN 2 * b.n ELSE 0)
       ELSE a.n * b.d < b.n * a.d

QLe(a, b) == ~IsNaN(a) /\ ~IsNaN(b) /\ ~QLt(b, a)

RECURSIVE QSum(_)
QSum(s) == IF s = <<>> THEN QInt(0) ELSE QAdd(s[1], QSum(Tail(s)))

RECURSIVE SumInt(_)
SumInt(s) == IF s = <<>> THEN 0 ELSE s[1] + SumInt(Tail(s))

\* range(length)[start:stop:step] for step > 0, as the list of its elements.
PyClip(i, length) ==
    IF i < 0 THEN (IF i + length < 0 THEN 0 ELSE i + length)
    ELSE Min(i, length)

PyRangeSlice(length, start, stop, step) ==
    LET lo == PyClip(start, length)
        hi == PyClip(stop, length)
        cnt == IF hi > lo THEN (hi - lo + step - 1) \div step ELSE 0
    IN  Tabulate(LAMBDA i : lo + (i - 1) * step, cnt)

\* chain[dd:] for 0 <= dd <= len(chain)
PyFrom(s, dd) == SubSeq(s, dd + 1, Len(s))

\* np.var(x): the population variance mean(|x - mean(x)|^2).
np_var(x) ==
    LET nn == Len(x)
        sx == SumInt(x)
        sxx == SumInt(Tabulate(LAMBDA i : x[i] * x[i], nn))
    IN  Q(nn * sxx - sx * sx, nn * nn)

\* np.argmin(list): 0-based index of the first smallest element.
np_argmin(l) ==
    CHOOSE i \in 0..(Len(l) - 1) :
        /\ \A j \in 0..(Len(l) - 1) : QLe(l[i + 1], l[j + 1])
        /\ \A j \in 0..(i - 1) : QLt(l[i + 1], l[j + 1])

\* ---------------------------------------------------------- equilibration.py

DefaultDmin == 0
DefaultDstep == 10
DefaultDmax == -1

_standard_error_squared(c) ==
    LET nn == Len(c)
        se2 == QDiv(np_var(c), QInt(nn))
    IN  se2

\* the candidate truncation points scanned by mser
mser_candidates(c, d_min, d_step, d_max) ==
    PyRangeSlice(Len(c), d_min, d_max, d_step)

\* variant of mser_dstar: the argmin index taken as the offset from dmin
dstar_index_only(d_min, dtemp, d_step, length) == Min(d_min + dtemp, length)

mser_dstar(d_min, dtemp, d_step, length) ==
    Min(d_min + (dtemp + 1) * d_step, length)

mser(c, d_min, d_step, d_max, full) ==
    LET length == Len(c)
        cand == mser_candidates(c, d_min, d_step, d_max)
        SE2_list == Tabulate(LAMBDA i : _standard_error_squared(PyFrom(c, cand[i])), Len(cand))
    IN  IF SE2_list = <<>>
        THEN [kind |-> "raise", error |-> "ValueError"]
        ELSE LET dtemp == np_argmin(SE2_list)
                 dstar == mser_dstar(d_min, dtemp, d_step, length)
             IN  IF full
                 THEN [kind |-> "dict", dstar |-> dstar, SE2 |-> SE2_list]
                 ELSE [kind |-> "int", dstar |-> dstar]

\* Inputs: every short series over small values, and long series made of an
\* elevated transient of k samples followed by a constant plateau at 0.
ShortSeries == UNION {[1..l -> 0..MaxVal] : l \in 0..MaxLen}

TransientSeries ==
    UNION {{[i \in 1..l |-> IF i <= k THEN h + (IF alt THEN i % 2 ELSE 0) ELSE 0] :
               k \in 1..(l - 1), h \in 1..MaxLevel, alt \in BOOLEAN} : l \in 2..MaxLenT}

InitMser ==
    /\ unit = "mser"
    /\ \/ /\ series \in ShortSeries
          /\ dmin \in 0..MaxDmin
          /\ dstep \in {1, 2, DefaultDstep}
          /\ dmax \in {DefaultDmax, -2, 3}
       \/ /\ series \in TransientSeries
          /\ dmin = DefaultDmin
          /\ dstep = DefaultDstep
          /\ dmax = DefaultDmax
    /\ full_output \in BOOLEAN
    /\ mser_ret = NoRet
    /\ np_major = None /\ lapack_nan = None /\ chain = None
    /\ time_axis = None /\ return_WB = None /\ rhat_ret = None
    /\ model = None /\ call = None /\ ret = None

MserCall ==
    /\ unit = "mser"
    /\ mser_ret' = mser(series, dmin, dstep, dmax, full_output)
    /\ UNCHANGED <<unit, series, dmin, dstep, dmax, full_output>>
    /\ UNCHANGED rhatVars
    /\ UNCHANGED modelVars

NextMser == MserCall

SpecMser == InitMser /\ [][NextMser]_vars

\* ------------------------------------------------------------ numpy arrays

\* A 2-D array is a sequence of rows; a 3-D array a sequence of 2-D arrays.
Rows(a) == Len(a)

Cols(a) == Len(a[1])

Matrix(F(_, _), rows, cols) == Tabulate(LAMBDA i : Tabulate(LAMBDA j : F(i, j), cols), rows)

Transpose(a) == Matrix(LAMBDA j, i : a[i][j], Cols(a), Rows(a))

ToQ(a) == Matrix(LAMBDA i, j : QInt(a[i][j]), Rows(a), Cols(a))

MatMul(a, b) ==
    Matrix(LAMBDA i, j : QSum(Tabulate(LAMBDA k : QMul(a[i][k], b[k][j]), Cols(a))),
           Rows(a), Cols(b))

MatScale(a, q) == Matrix(LAMBDA i, j : QMul(a[i][j], q), Rows(a), Cols(a))

AllFinite(a) == \A i \in 1..Rows(a) : \A j \in 1..Cols(a) : IsFinite(a[i][j])

\* np.swapaxes(chain, 0, 1) of a 3-D array
np_swapaxes(c) == Matrix(LAMBDA j, i : c[i][j], Len(c[1]), Len(c))

\* np.mean(chain, axis=1) of a 3-D array: one row of time-means per chain
np_mean_axis1(c) ==
    Matrix(LAMBDA i, k : QDiv(QSum(Tabulate(LAMBDA j : QInt(c[i][j][k]), Len(c[i]))),
                              QInt(Len(c[i]))),
           Len(c), Len(c[1][1]))

\* np.cov(m, rowvar=False, ddof=1) of a 2-D array m, step by step.
\* avg = average(X, axis=1)
cov_average(X) == Tabulate(LAMBDA v : QDiv(QSum(X[v]), QInt(Cols(X))), Rows(X))

\* X -= avg[:, None]
cov_centre(X, avg) == Matrix(LAMBDA v, o : QSub(X[v][o], avg[v]), Rows(X), Cols(X))

\* fact = X.shape[1] - ddof, set to 0.0 when it is not positive
cov_fact(nobs) == IF nobs - 1 <= 0 THEN 0 ELSE nobs - 1

\* c = dot(X, X.T); c *= 1 / fact
cov_product(Xc, fact) == MatScale(MatMul(Xc, Transpose(Xc)), QDiv(QInt(1), QInt(fact)))

\* c.squeeze(): one variable gives a 0-d array
np_squeeze(c) == IF Rows(c) = 1 THEN [ndim |-> 0, v |-> c[1][1]] ELSE [ndim |-> 2, v |-> c]

\* the covariance of the variables in the rows of X
cov_rows(X) == np_squeeze(cov_product(cov_centre(X, cov_average(X)), cov_fact(Cols(X))))

\* numpy 1.x transposes m only when it has more than one row; numpy 2.x always
\* transposes a 2-D m.
np_cov(m, major) ==
    cov_rows(IF (IF major = 1 THEN Rows(m) # 1 ELSE TRUE) THEN Transpose(m) ELSE m)

\* Wm[walker] = <array>: a 0-d array is broadcast over the (p, p) slot.
\* (np.cov returns either a 0-d array or a (p, p) array here.)
np_broadcast(a, p) ==
    IF a.ndim = 0 THEN Matrix(LAMBDA i, j : a.v, p, p) ELSE a.v

\* Pseudo-inverse of a 2 x 2 matrix of finite entries, which is what the
\* minimum-norm least-squares solution of lstsq applies to the right-hand side.
pinv2(A) ==
    LET det == QSub(QMul(A[1][1], A[2][2]), QMul(A[1][2], A[2][1]))
        frob2 == QSum(<<QMul(A[1][1], A[1][1]), QMul(A[1][2], A[1][2]),
                        QMul(A[2][1], A[2][1]), QMul(A[2][2], A[2][2])>>)
    IN  IF det.n # 0
        THEN MatScale(<<<<A[2][2], QNeg(A[1][2])>>, <<QNeg(A[2][1]), A[1][1]>>>>,
                      QDiv(QInt(1), det))
        ELSE IF frob2.n # 0
        THEN MatScale(Transpose(A), QDiv(QInt(1), frob2))
        ELSE A

\* The largest singular value s of a 2 x 2 matrix V, kept exactly as the pair
\* (frob2, absdet) = (sum of squared entries, |det V|):
\*     s^2 = (frob2 + sqrt(frob2^2 - 4 absdet^2)) / 2.
max_singular_value(V) ==
    [frob2 |-> QSum(<<QMul(V[1][1], V[1][1]), QMul(V[1][2], V[1][2]),
                      QMul(V[2][1], V[2][1]), QMul(V[2][2], V[2][2])>>),
     absdet |-> LET d == QSub(QMul(V[1][1], V[2][2]), QMul(V[1][2], V[2][1]))
                IN  [n |-> Abs(d.n), d |-> d.d]]

NaNSingularValue == [frob2 |-> QNaN, absdet |-> QNaN]

LinAlgError == [kind |-> "raise", error |-> "LinAlgError"]

\* np.linalg.lstsq(W, B, rcond=-1)[0].  B must be 2-D.  Non-finite input
\* reaches LAPACK, whose answer depends on the build: an error, or NaN.
np_lstsq(W, B, lnan) ==
    IF B.ndim # 2 \/ Rows(B.v) # Rows(W)
    THEN LinAlgError
    ELSE IF ~AllFinite(W)
    THEN IF lnan = "raise"
         THEN LinAlgError
         ELSE [kind |-> "value", V |-> Matrix(LAMBDA i, j : QNaN, Rows(W), Cols(B.v))]
    ELSE [kind |-> "value", V |-> MatMul(pinv2(W), B.v)]

\* np.linalg.svd(V, compute_uv=False) followed by np.max
np_max_svd(V, lnan) ==
    IF ~AllFinite(V)
    THEN IF lnan = "raise"
         THEN LinAlgError
         ELSE [kind |-> "value", s |-> NaNSingularValue]
    ELSE [kind |-> "value", s |-> max_singular_value(V)]

\* ------------------------------------------------------------- convergence.py

\* variants of _reshape_chain: no swap; a swap done in the caller's array
reshape_not_swapped(c) == [reshaped_chain |-> c, chain |-> c]

reshape_in_place(c) == [reshaped_chain |-> np_swapaxes(c), chain |-> np_swapaxes(c)]

\* _reshape_chain returns a swapped view and leaves its argument as it was:
\* reshaped_chain is the value returned, chain the caller's array afterwards.
_reshape_chain(c) == [reshaped_chain |-> np_swapaxes(c), chain |-> c]

_B_over_n(c, major) == np_cov(np_mean_axis1(c), major)

\* np.mean(Wm, axis=0)
mean_axis0(Wm, nparams) ==
    Matrix(LAMBDA u, v : QDiv(QSum(Tabulate(LAMBDA walker : Wm[walker][u][v], Len(Wm))),
                              QInt(Len(Wm))),
           nparams, nparams)

_W(c, major) ==
    mean_axis0(Tabulate(LAMBDA walker : np_broadcast(np_cov(ToQ(c[walker]), major),
                                                     Len(c[1][1])),
                        Len(c)),
               Len(c[1][1]))

\* return np.max(s), W, B_over_n
lambda1_return(s, W, B_over_n) ==
    IF s.kind = "raise" THEN s
    ELSE [kind |-> "value", lambda1 |-> s.s, W |-> W, B |-> B_over_n.v]

\* s = np.linalg.svd(V, compute_uv=False)
lambda1_svd(V, W, B_over_n, lnan) ==
    IF V.kind = "raise" THEN V
    ELSE lambda1_return(np_max_svd(V.V, lnan), W, B_over_n)

\* V = np.linalg.lstsq(W, B_over_n, rcond=-1)[0]
lambda1_lstsq(W, B_over_n, lnan) == lambda1_svd(np_lstsq(W, B_over_n, lnan), W, B_over_n, lnan)

_lambda1(c, major, lnan) == lambda1_lstsq(_W(c, major), _B_over_n(c, major), lnan)

\* r = base + coef * lambda1
psrf(m, n, lambda1) == [base |-> Q(n - 1, n), coef |-> Q(m + 1, m), lambda1 |-> lambda1]

\* if return_WB: toreturn = (r, W, B) else: toreturn = r
rhat_return(r, l, ret_WB) ==
    IF ret_WB
    THEN [kind |-> "tuple", r |-> r, W |-> l.W, B |-> l.B]
    ELSE [kind |-> "float", r |-> r]

\* lambda1, W, B = _lambda1(chain); r = 1 - 1 / n + (1 + 1 / m) * lambda1
rhat_r(m, n, l, ret_WB) ==
    IF l.kind = "raise" THEN l ELSE rhat_return(psrf(m, n, l.lambda1), l, ret_WB)

\* m, n, _ = chain.shape, for the local name chain
rhat_shape(temp, ret_WB, major, lnan) ==
    [chain |-> temp.chain,
     ret |-> rhat_r(Len(temp.reshaped_chain), Len(temp.reshaped_chain[1]),
                    _lambda1(temp.reshaped_chain, major, lnan), ret_WB)]

\* rhat(chain, time_axis, return_WB): ret is the outcome, chain the caller's
\* array after the call.
rhat(c, t_axis, ret_WB, major, lnan) ==
    rhat_shape(IF t_axis = 0 THEN _reshape_chain(c) ELSE [reshaped_chain |-> c, chain |-> c],
               ret_WB, major, lnan)

\* Inputs: arrays of shape (a, b, p) with a, b <= MaxDim and a * b <= MaxSamples
\* whose samples (the p-vectors) are the zero vector or a unit vector, at most
\* MaxNonZero of them a unit vector.
ParamDims == {1, 2}

Samples(p) == {[k \in 1..p |-> IF k = hot THEN 1 ELSE 0] : hot \in 0..p}

Shapes ==
    {s \in (1..MaxDim) \X (1..MaxDim) \X ParamDims : s[1] * s[2] <= MaxSamples}

NonZeroSamples(c) ==
    Cardinality({ij \in (1..Len(c)) \X (1..Len(c[1])) :
                    \E k \in 1..Len(c[ij[1]][ij[2]]) : c[ij[1]][ij[2]][k] # 0})

Chains ==
    {c \in UNION {[1..s[1] -> [1..s[2] -> Samples(s[3])]] : s \in Shapes} :
        NonZeroSamples(c) <= MaxNonZero}

InitRhat ==
    /\ unit = "rhat"
    /\ np_major \in {1, 2}
    /\ lapack_nan \in {"raise", "nan"}
    /\ chain \in Chains
    /\ time_axis \in {0, 1}
    /\ return_WB \in BOOLEAN
    /\ rhat_ret = NoRet
    /\ series = None /\ dmin = None /\ dstep = None /\ dmax = None
    /\ full_output = None /\ mser_ret = None
    /\ model = None /\ call = None /\ ret = None

RhatCall ==
    /\ unit = "rhat"
    /\ LET out == rhat(chain, time_axis, return_WB, np_major, lapack_nan)
       IN  /\ rhat_ret' = out.ret
           /\ chain' = out.chain
    /\ UNCHANGED <<unit, np_major, lapack_nan, time_axis, return_WB>>
    /\ UNCHANGED mserVars
    /\ UNCHANGED modelVars

NextRhat == RhatCall

SpecRhat == InitRhat /\ [][NextRhat]_vars

\* ------------------------------------------------------------------ model.py

RECURSIVE Pow(_, _)
Pow(b, e) == IF e = 0 THEN 1 ELSE b * Pow(b, e - 1)

ModelError(msg, predicted) ==
    [kind |-> "raise", error |-> "ModelError", msg |-> msg, predict_called |-> predicted]

default_transform(x) == x

\* the callable stored in self.transform, applied to params
apply_transform(f, x) ==
    IF f.name = "default_transform" THEN default_transform(x)
    ELSE Tabulate(LAMBDA i : 2 * x[i], Len(x))

BaseModel_init(cls, N, M, data, data_error, transform) ==
    [cls |-> cls, N |-> N, M |-> M,
     data |-> data,
     data_error |-> IF data_error = None
                    THEN [kind |-> "scalar", v |-> 1]
                    ELSE data_error,
     transform |-> IF transform = None
                   THEN [kind |-> "callable", name |-> "default_transform"]
                   ELSE transform]

\* variant of design_matrix: powers 1..N instead of 0..N-1
design_matrix_shifted(t, N) == Matrix(LAMBDA i, n : Pow(t[i], n), Len(t), N)

\* J = np.array([t**n for n in range(N)]).T
design_matrix(t, N) == Matrix(LAMBDA i, n : Pow(t[i], n - 1), Len(t), N)

\* LinearModel, FractionalModel and ExponentialModel keep t and call
\* BaseModel.__init__ with M = len(t); LinearModel adds the design matrix J.
Model_init(cls, N, t, data, data_error, transform) ==
    LET base == BaseModel_init(cls, N, Len(t), data, data_error, transform)
    IN  IF cls = "BaseModel" THEN base
        ELSE IF cls = "LinearModel"
        THEN [f \in DOMAIN base \cup {"t", "J"} |->
                 IF f = "t" THEN t ELSE IF f = "J" THEN design_matrix(t, N) ELSE base[f]]
        ELSE [f \in DOMAIN base \cup {"t"} |-> IF f = "t" THEN t ELSE base[f]]

\* LinearModel.predict: J @ x
LinearModel_predict(self, params) ==
    LET x == apply_transform(self.transform, params)
    IN  Tabulate(LAMBDA i : QInt(SumInt(Tabulate(LAMBDA n : self.J[i][n] * x[n], Len(x)))),
                 Len(self.J))

\* FractionalModel.predict: 1 / (sum_ii x[ii] * t**ii + t**N), kept as the
\* denominators
FractionalModel_predict(self, params) ==
    LET x == apply_transform(self.transform, params)
    IN  Tabulate(LAMBDA i :
                     [reciprocal_of |->
                          SumInt(Tabulate(LAMBDA n : x[n] * Pow(self.t[i], n - 1), Len(x)))
                          + Pow(self.t[i], self.N)],
                 Len(self.t))

\* ExponentialModel.predict: sum_n exp(-x[n] * t) / N, kept as the list of
\* exponents and the divisor
ExponentialModel_predict(self, params) ==
    LET x == apply_transform(self.transform, params)
    IN  Tabulate(LAMBDA i : [exp_of |-> Tabulate(LAMBDA n : -x[n] * self.t[i], Len(x)),
                             over |-> self.N],
                 Len(self.t))

predict(self, params) ==
    IF self.cls = "LinearModel"
    THEN [kind |-> "value", v |-> LinearModel_predict(self, params), predict_called |-> TRUE]
    ELSE IF self.cls = "FractionalModel"
    THEN [kind |-> "value", v |-> FractionalModel_predict(self, params), predict_called |-> TRUE]
    ELSE IF self.cls = "ExponentialModel"
    THEN [kind |-> "value", v |-> ExponentialModel_predict(self, params), predict_called |-> TRUE]
    ELSE ModelError("Model prediction routine hasn't been implemented", TRUE)

\* check_data(data, error): only data is looked at
check_data(data, error) ==
    IF data = None
    THEN ModelError("Please set the values and error bars of the data", FALSE)
    ELSE [kind |-> "ok"]

error_at(self, i) == IF self.data_error.kind = "scalar" THEN self.data_error.v
                     ELSE self.data_error.v[i]

\* (self.data - preds) / self.data_error, element by element; kept as its
\* three operands where the prediction is not a plain number
weighted_difference(self, preds) ==
    IF self.cls # "LinearModel"
    THEN Tabulate(LAMBDA i : [data |-> self.data.v[i], pred |-> preds[i],
                              error |-> error_at(self, i)], Len(preds))
    ELSE Tabulate(LAMBDA i : QDiv(QSub(QInt(self.data.v[i]), preds[i]), QInt(error_at(self, i))),
                  Len(preds))

residual(self, params) ==
    LET chk == check_data(self.data, self.data_error)
    IN  IF chk.kind = "raise" THEN chk
        ELSE LET preds == predict(self, params)
             IN  IF preds.kind = "raise" THEN preds
                 ELSE [kind |-> "value", v |-> weighted_difference(self, preds.v),
                       predict_called |-> TRUE]

\* 0.5 * np.linalg.norm(res) ** 2
half_squared_norm(self, res) ==
    IF self.cls # "LinearModel"
    THEN [half_squared_norm_of |-> res]
    ELSE QMul(Q(1, 2), QSum(Tabulate(LAMBDA i : QMul(res[i], res[i]), Len(res))))

cost(self, params) ==
    LET chk == check_data(self.data, self.data_error)
    IN  IF chk.kind = "raise" THEN chk
        ELSE LET res == residual(self, params)
             IN  IF res.kind = "raise" THEN res
                 ELSE [kind |-> "value", v |-> half_squared_norm(self, res.v),
                       predict_called |-> TRUE]

\* Inputs.  t is a grid off, off + 1, ...; data is None or generated from a
\* polynomial with 0/1 coefficients; error bars are None or a constant array.
Classes == {"BaseModel", "LinearModel", "FractionalModel", "ExponentialModel"}

Orders == {1, 2, 3}

Grids == {[i \in 1..M |-> off + i - 1] : M \in 1..MaxM, off \in {0, 1}}

Synthetic(t, q) == [i \in 1..Len(t) |-> SumInt([n \in 1..Len(q) |-> q[n] * Pow(t[i], n - 1)])]

DataFor(t, N) == {None} \cup {Array(Synthetic(t, q)) : q \in [1..N -> {0, 1}]}

ErrorsFor(t) == {None} \cup {Array([i \in 1..Len(t) |-> e]) : e \in {1, 2}}

Transforms == {None, [kind |-> "callable", name |-> "double"]}

InitModel ==
    /\ unit = "model"
    /\ \E cls \in Classes, N \in Orders, t \in Grids, transform \in Transforms :
         \E data \in DataFor(t, N), data_error \in ErrorsFor(t) :
            model = Model_init(cls, N, t, data, data_error, transform)
    /\ \E method \in {"predict", "residual", "cost"} :
         \E params \in [1..model.N -> 0..MaxParam] :
            call = [method |-> method, params |-> params]
    /\ ret = NoRet
    /\ series = None /\ dmin = None /\ dstep = None /\ dmax = None
    /\ full_output = None /\ mser_ret = None
    /\ np_major = None /\ lapack_nan = None /\ chain = None
    /\ time_axis = None /\ return_WB = None /\ rhat_ret = None

Predict ==
    /\ unit = "model"
    /\ call.method = "predict"
    /\ ret' = predict(model, call.params)
    /\ UNCHANGED <<unit, model, call>>
    /\ UNCHANGED mserVars
    /\ UNCHANGED rhatVars

Residual ==
    /\ unit = "model"
    /\ call.method = "residual"
    /\ ret' = residual(model, call.params)
    /\ UNCHANGED <<unit, model, call>>
    /\ UNCHANGED mserVars
    /\ UNCHANGED rhatVars

Cost ==
    /\ unit = "model"
    /\ call.method = "cost"
    /\ ret' = cost(model, call.params)
    /\ UNCHANGED <<unit, model, call>>
    /\ UNCHANGED mserVars
    /\ UNCHANGED rhatVars

NextModel == Predict \/ Residual \/ Cost

SpecModel == InitModel /\ [][NextModel]_vars

\* ------------------------------------------------------------ whole program

Init == InitMser \/ InitRhat \/ InitModel

Next == MserCall \/ RhatCall \/ Predict \/ Residual \/ Cost

Spec == Init /\ [][Next]_vars

\* ------------------------------------------------------------------- claims

MserReturned == unit = "mser" /\ mser_ret.kind \in {"int", "dict"}

SE2_at(d) == _standard_error_squared(PyFrom(series, d))

\* C1: whenever at least one candidate is scanned (dmin >= 0, dstep >= 1), the
\* value mser returns is the scanned candidate d whose sub-series chain[d:] has
\* the smallest squared standard error, the first such d on ties.
C1_MserReturnsMinimizer ==
    (MserReturned /\ dmin >= 0 /\ dstep >= 1) =>
        LET cand == mser_candidates(series, dmin, dstep, dmax)
        IN  \E i \in 1..Len(cand) :
                /\ cand[i] = mser_ret.dstar
                /\ \A j \in 1..Len(cand) : QLe(SE2_at(cand[i]), SE2_at(cand[j]))
                /\ \A j \in 1..(i - 1) : QLt(SE2_at(cand[i]), SE2_at(cand[j]))

\* the number k of leading samples before the constant tail of s
TransientEnd(s) ==
    CHOOSE k \in 0..(Len(s) - 1) :
        /\ \A i \in (k + 1)..Len(s) : s[i] = s[Len(s)]
        /\ k = 0 \/ s[k] # s[Len(s)]

\* s is k >= 1 elevated samples followed by a constant plateau
IsTransientThenPlateau(s) ==
    /\ Len(s) >= 2
    /\ TransientEnd(s) >= 1
    /\ \A i \in 1..TransientEnd(s) : s[i] > s[Len(s)]

MserDefaults == dmin = DefaultDmin /\ dstep = DefaultDstep /\ dmax = DefaultDmax

SomeCandidateAfterTransient ==
    LET cand == mser_candidates(series, dmin, dstep, dmax)
    IN  \E i \in 1..Len(cand) : cand[i] >= TransientEnd(series)

\* C7 as stated: for a series whose first k samples are an elevated transient
\* and whose other samples are a plateau, mser with its defaults returns d >= k.
C7_DstarAfterTransient ==
    (MserReturned /\ MserDefaults /\ IsTransientThenPlateau(series)) =>
        mser_ret.dstar >= TransientEnd(series)

\* C7 amended: for a series whose first k samples are an elevated transient and
\* whose other samples are a constant plateau, mser with its defaults returns
\* d >= k provided some scanned candidate (a multiple of 10 below L - 1) is >= k.
C7_DstarAfterTransientWhenScanned ==
    (MserReturned /\ MserDefaults /\ IsTransientThenPlateau(series)
        /\ SomeCandidateAfterTransient) =>
        mser_ret.dstar >= TransientEnd(series)

\* C7 witness: a transient longer than one step, with a candidate after it
C7_Witness ==
    /\ MserReturned /\ MserDefaults /\ IsTransientThenPlateau(series)
    /\ SomeCandidateAfterTransient
    /\ TransientEnd(series) > DefaultDstep
    /\ mser_ret.dstar >= TransientEnd(series)

RhatCalled == unit = "rhat" /\ rhat_ret # NoRet

RhatReturned == unit = "rhat" /\ rhat_ret.kind \in {"float", "tuple"}

\* the array rhat works on, of shape (m, n, p), and its m and n
Normalized == IF time_axis = 0 THEN np_swapaxes(chain) ELSE chain

NormM == Len(Normalized)

NormN == Len(Normalized[1])

ValidChain == NormM >= 2 /\ NormN >= 2

\* C2: rhat(swapaxes(c, 0, 1), time_axis=0, return_WB=True) gives the same
\* (r, W, B) as rhat(c, time_axis=1, return_WB=True).
C2_AxisOrderInvariance ==
    (RhatCalled /\ time_axis = 1 /\ return_WB) =>
        rhat_ret = rhat(np_swapaxes(chain), 0, TRUE, np_major, lapack_nan).ret

\* C2 witness: a triple returned for an array whose two leading axes differ
C2_Witness ==
    /\ RhatCalled /\ time_axis = 1 /\ return_WB
    /\ rhat_ret.kind = "tuple"
    /\ ValidChain
    /\ np_swapaxes(chain) # chain
    /\ rhat_ret.r.lambda1.frob2.n # 0

\* C3: rhat raises, and returns nothing, when the normalized chain has fewer
\* than 2 chains or fewer than 2 time steps.
C3_RaisesOnDegenerateChain ==
    (RhatCalled /\ ~ValidChain) => rhat_ret.kind = "raise"

\* C5: for every valid chain rhat returns r = 1 - 1/n + (1 + 1/m) * lambda1 with
\* lambda1 the largest singular value of the least-squares solution of
\* W.V = B_over_n, as a bare scalar or as the first element of (r, W, B).
C5_ReturnsPsrf ==
    (RhatCalled /\ ValidChain) =>
        /\ rhat_ret.kind = (IF return_WB THEN "tuple" ELSE "float")
        /\ rhat_ret.r.base = QSub(QInt(1), Q(1, NormN))
        /\ rhat_ret.r.coef = QAdd(QInt(1), Q(1, NormM))
        /\ LET W == _W(Normalized, np_major)
               B == _B_over_n(Normalized, np_major)
           IN  rhat_ret.r.lambda1 = max_singular_value(MatMul(pinv2(W), B.v))

\* the sample covariance, with divisor N - 1, of two sequences of N numbers
SampleCov(x, y) ==
    LET N == Len(x)
        sxy == QSum([i \in 1..N |-> QMul(x[i], y[i])])
    IN  QDiv(QSub(sxy, QDiv(QMul(QSum(x), QSum(y)), QInt(N))), QInt(N - 1))

ManualW(c) ==
    [u \in 1..Len(c[1][1]) |-> [v \in 1..Len(c[1][1]) |->
        QDiv(QSum([i \in 1..Len(c) |->
                      SampleCov([j \in 1..Len(c[i]) |-> QInt(c[i][j][u])],
                                [j \in 1..Len(c[i]) |-> QInt(c[i][j][v])])]),
             QInt(Len(c)))]]

TimeMean(c, i, u) == QDiv(QSum([j \in 1..Len(c[i]) |-> QInt(c[i][j][u])]), QInt(Len(c[i])))

ManualB(c) ==
    [u \in 1..Len(c[1][1]) |-> [v \in 1..Len(c[1][1]) |->
        SampleCov([i \in 1..Len(c) |-> TimeMean(c, i, u)],
                  [i \in 1..Len(c) |-> TimeMean(c, i, v)])]]

\* C6: for every valid chain, rhat(chain, return_WB=True) returns W, the average
\* over the chains of each chain's sample covariance (divisor n - 1), and B, the
\* sample covariance (divisor m - 1) of the per-chain time-means.
C6_ReturnsManualWB ==
    (RhatCalled /\ ValidChain /\ return_WB) =>
        /\ rhat_ret.kind = "tuple"
        /\ rhat_ret.W = ManualW(Normalized)
        /\ rhat_ret.B = ManualB(Normalized)

\* a is a symmetric positive semi-definite matrix (of order 1 or 2)
SymmetricPSD(a) ==
    /\ \A i \in 1..Len(a) : \A j \in 1..Len(a) : a[i][j] = a[j][i]
    /\ \A i \in 1..Len(a) : QLe(QInt(0), a[i][i])
    /\ Len(a) = 2 => QLe(QInt(0), QSub(QMul(a[1][1], a[2][2]), QMul(a[1][2], a[2][1])))

\* C8: for every valid chain, rhat returns matrices W and B_over_n that are
\* symmetric and positive semi-definite.
C8_ReturnsSymmetricPSD ==
    (RhatCalled /\ ValidChain /\ return_WB) =>
        /\ rhat_ret.kind = "tuple"
        /\ SymmetricPSD(rhat_ret.W)
        /\ SymmetricPSD(rhat_ret.B)

\* C9: a call of rhat leaves the caller's array as it was, and a second call
\* on the same array returns what the first returned.
C9_NoSideEffects ==
    [][unit = "rhat" => (chain' = chain /\ (rhat_ret # NoRet => rhat_ret' = rhat_ret))]_vars

\* C9 witness: a call that went through the axis swap has returned a value
C9_Witness ==
    /\ RhatReturned
    /\ ValidChain
    /\ time_axis = 0
    /\ np_swapaxes(chain) # chain

ModelCalled == unit = "model" /\ ret # NoRet

\* C4: residual and cost raise ModelError, before predict is evaluated, when the
\* model was constructed with data=None or with data_error=None.
C4_RaisesWithoutDataOrError ==
    (ModelCalled /\ call.method \in {"residual", "cost"}
        /\ (model.data = None \/ model.data_error.kind = "scalar")) =>
        /\ ret.kind = "raise"
        /\ ret.error = "ModelError"
        /\ ~ret.predict_called

\* sum_n x[n] * t^n by Horner's rule, x[1] being the constant coefficient
RECURSIVE Horner(_, _)
Horner(x, t) == IF x = <<>> THEN 0 ELSE x[1] + t * Horner(Tail(x), t)

PolynomialAt(self, params) ==
    [i \in 1..Len(self.t) |-> Horner(apply_transform(self.transform, params), self.t[i])]

UnitErrorBars(self) == \A i \in 1..self.M : error_at(self, i) = 1

\* C10: LinearModel.predict(params) is sum_n transform(params)[n] * t_i^n at
\* each t_i, and cost(params) is 0 when the data equal that prediction and the
\* error bars are 1.
C10_LinearPredictAndCost ==
    (ModelCalled /\ model.cls = "LinearModel") =>
        /\ call.method = "predict" =>
              /\ ret.kind = "value"
              /\ ret.v = [i \in 1..model.M |-> QInt(PolynomialAt(model, call.params)[i])]
        /\ (call.method = "cost" /\ model.data = Array(PolynomialAt(model, call.params))
                /\ UnitErrorBars(model)) =>
              /\ ret.kind = "value"
              /\ ret.v = QInt(0)

\* C10 witness: N = 2, t = [0, 1, 2], params = [1, 1], data = [1, 2, 3]
C10_Witness ==
    /\ ModelCalled /\ model.cls = "LinearModel"
    /\ model.N = 2 /\ model.t = <<0, 1, 2>>
    /\ model.transform.name = "default_transform"
    /\ model.data = Array(<<1, 2, 3>>) /\ UnitErrorBars(model)
    /\ call = [method |-> "cost", params |-> <<1, 1>>]
    /\ ret.kind = "value" /\ ret.v = QInt(0)

====
